---------------------------- MODULE Spec2Model ----------------------------
(***************************************************************************)
(* Model of the HLS playlist pipeline of ilc-scraper (downloader.py,       *)
(* utils.py) and of the batch driver in ilc_scrape.py main().              *)
(*                                                                         *)
(* A playlist text is modelled by the list of lines str.splitlines()       *)
(* produces from it.  A line is a record [tag, attrs]: tag is the text up  *)
(* to the first ':' (or the whole line), attrs the comma separated         *)
(* attribute list of a key directive as <<name, value>> pairs.             *)
(* Python indices are 0-based; the model uses 1-based positions and the    *)
(* value None (0) for "not found".                                         *)
(***************************************************************************)
EXTENDS Integers, Sequences, FiniteSets, TLC

----------------------------------------------------------------------------
(* Bounds *)

MaxLines == 4

MaxKeyLines == 3

NumNames == 3

MaxPipeLines == 3

MaxUrls == 2

MaxSelector == 3

MaxLectures == 5

MaxParallel == 2

----------------------------------------------------------------------------
(* Lines of a playlist *)

KEY_TAG == "#EXT-X-KEY"

DISC_TAG == "#EXT-X-DISCONTINUITY"

ENDLIST_TAG == "#EXT-X-ENDLIST"

VERSION_TAG == "#EXT-X-VERSION"

Line(tag, attrs) == [tag |-> tag, attrs |-> attrs]

EndListLine == Line(ENDLIST_TAG, << >>)

BlankLine == Line("", << >>)

DiscLine == Line(DISC_TAG, << >>)

HeaderLine == Line(VERSION_TAG, << >>)

Seg1 == Line("seg1.ts", << >>)

Seg2 == Line("seg2.ts", << >>)

Key1 == Line(KEY_TAG, << <<"METHOD", "AES-128">>, <<"URI", "http://origin/k1">> >>)

Key2 == Line(KEY_TAG, << <<"METHOD", "AES-128">>, <<"URI", "http://origin/k2">>,
                         <<"IV", "0x01">> >>)

KeyNone == Line(KEY_TAG, << <<"METHOD", "NONE">> >>)

LineAlphabet == {HeaderLine, Key1, Key2, KeyNone, DiscLine, EndListLine, Seg1, Seg2}

SeqsUpTo(S, n) == UNION {[1..k -> S] : k \in 0..n}

Playlists == SeqsUpTo(LineAlphabet, MaxLines)

DirectiveTags == {KEY_TAG, DISC_TAG, ENDLIST_TAG, VERSION_TAG}

\* a segment-reference line: neither a directive ('#...') nor blank
IsSegment(line) == line.tag \notin DirectiveTags /\ line.tag # ""

\* line.startswith("#EXT-X-KEY")
StartsWithKey(line) == line.tag = KEY_TAG

\* line.startswith("#EXT-X-DISCONTINUITY")
StartsWithDisc(line) == line.tag = DISC_TAG

\* the METHOD=NONE test left out
StartsWithKeyNone_never(line) == FALSE

\* line.startswith("#EXT-X-KEY:METHOD=NONE")
StartsWithKeyNone(line) ==
    /\ line.tag = KEY_TAG
    /\ Len(line.attrs) >= 1
    /\ line.attrs[1] = <<"METHOD", "NONE">>

\* "#EXT-X-KEY" in variant_pls
ContainsKey(pls) == \E i \in 1..Len(pls) : pls[i].tag = KEY_TAG

Segments(pls) == SelectSeq(pls, IsSegment)

----------------------------------------------------------------------------
(* utils.find_startswith *)

None == 0

Min(S) == CHOOSE x \in S : \A y \in S : x <= y

Max(S) == CHOOSE x \in S : \A y \in S : x >= y

\* prefix is one of the directive tags, which a line starts with exactly when
\* it carries that tag
find_startswith(lines, prefix, rev) ==
    LET hits == {i \in 1..Len(lines) : lines[i].tag = prefix}
    IN IF hits = {} THEN None
       ELSE IF rev THEN Max(hits) ELSE Min(hits)

----------------------------------------------------------------------------
(* downloader.get_angle_playlists *)

Take(s, n) == SubSeq(s, 1, n)

Drop(s, n) == SubSeq(s, n + 1, Len(s))

\* pls[:idx] for a 1-based position idx of the model; pls[:None] is all of pls
SliceBefore(pls, idx) == IF idx = None THEN pls ELSE Take(pls, idx - 1)

Returned(angles) == [status |-> "ok", angles |-> angles]

Raised(exc) == [status |-> exc, angles |-> << >>]

\* get_angle_playlists with the inherited key searched from the front
get_angle_playlists_first_key(pls) ==
    LET headers_end == find_startswith(pls, KEY_TAG, FALSE)
        headers == SliceBefore(pls, headers_end)
        angle1_end == find_startswith(pls, DISC_TAG, FALSE)
        angle1 == Take(pls, angle1_end - 1) \o <<EndListLine, BlankLine>>
        rest == Drop(pls, angle1_end)
        last_key == find_startswith(angle1, KEY_TAG, FALSE)
    IN IF angle1_end = None THEN Returned(<<pls>>)
       ELSE IF rest = << >> THEN Raised("IndexError")
       ELSE IF StartsWithKey(rest[1]) THEN Returned(<<angle1, headers \o rest>>)
       ELSE IF last_key = None THEN Raised("TypeError")
       ELSE Returned(<<angle1, headers \o <<angle1[last_key]>> \o rest>>)

get_angle_playlists(pls) ==
    LET headers_end == find_startswith(pls, KEY_TAG, FALSE)
        headers == SliceBefore(pls, headers_end)
        angle1_end == find_startswith(pls, DISC_TAG, FALSE)
        angle1 == Take(pls, angle1_end - 1) \o <<EndListLine, BlankLine>>
        rest == Drop(pls, angle1_end)
        last_key == find_startswith(angle1, KEY_TAG, TRUE)
    IN IF angle1_end = None THEN Returned(<<pls>>)
       ELSE IF rest = << >> THEN Raised("IndexError")
       ELSE IF StartsWithKey(rest[1]) THEN Returned(<<angle1, headers \o rest>>)
       ELSE IF last_key = None THEN Raised("TypeError")
       ELSE Returned(<<angle1, headers \o <<angle1[last_key]>> \o rest>>)

----------------------------------------------------------------------------
(* downloader.DirServer.get_url: the served temp directory *)

\* tempfile.NamedTemporaryFile names a file prefix + random part + suffix
TempName(r, suffix) == "tmp" \o ToString(r) \o suffix

RandomParts == 1..NumNames

\* urllib.parse.quote: every character of a TempName (letters, digits, '.',
\* '_') is in quote's always-safe set, so the name is returned unchanged
quote(name) == name

UrlOf(name) == "http://localhost:PORT/" \o quote(name)

\* file contents: text written in mode "w", bytes written in mode "wb"
TextContent(lines) == [lines |-> lines, bytes |-> << >>]

BytesContent(b) == [lines |-> << >>, bytes |-> b]

EmptyDir == [n \in {} |-> TextContent(<< >>)]

\* a create that takes the first random part, used or not
FreshParts_any(d, suffix) == RandomParts

\* mkstemp opens with O_CREAT|O_EXCL and retries on an existing name: the
\* random parts with which a create in directory d can succeed
FreshParts(d, suffix) == {r \in RandomParts : TempName(r, suffix) \notin DOMAIN d}

\* the part a create succeeds with.  The parts are drawn at random and are
\* interchangeable; the model takes the least of those that can succeed.
\* NumNames bounds the names: a create finds none when all are used.
CreatedPart(d, suffix) == Min(FreshParts(d, suffix))

CanCreate(d, suffix) == FreshParts(d, suffix) # {}

\* the file written and closed under its name (lines 62-66)
WriteFile(d, name, content) ==
    [n \in DOMAIN d \cup {name} |-> IF n = name THEN content ELSE d[n]]

----------------------------------------------------------------------------
(* downloader.extract_enc_keys *)

\* PAT.search(line): position of the first URI="..." attribute, or None
PAT_search(line) ==
    LET hits == {a \in 1..Len(line.attrs) : line.attrs[a][1] = "URI"}
    IN IF hits = {} THEN None ELSE Min(hits)

\* a substitution that replaces the whole attribute list
PAT_sub_whole_line(path_uri, line) == [line EXCEPT !.attrs = << <<"URI", path_uri>> >>]

\* PAT.sub('URI="<path_uri>"', line): every URI="..." attribute replaced
PAT_sub(path_uri, line) ==
    [line EXCEPT !.attrs =
        [a \in 1..Len(line.attrs) |->
            IF line.attrs[a][1] = "URI" THEN <<"URI", path_uri>>
            ELSE line.attrs[a]]]

Reverse(b) == [i \in 1..Len(b) |-> b[Len(b) + 1 - i]]

KEY_LEN == 16

\* orig_key[::-1][:16]
RealKey(orig_key) ==
    LET r == Reverse(orig_key) IN Take(r, IF Len(r) < KEY_LEN THEN Len(r) ELSE KEY_LEN)

\* what the origin serves under a key URL
KeyBytes(key_url) ==
    IF key_url = "http://origin/k1" THEN [i \in 1..32 |-> i - 1]
    ELSE [i \in 1..8 |-> 100 + i]

\* the state one call works on: the angle's lines (mutated in place), the
\* served directory, the key URLs fetched so far, and the fetch at which
\* the network fails (0: never)
EncState(lines, d, failAt) ==
    [status |-> "ok", lines |-> lines, dir |-> d, fetched |-> << >>,
     failAt |-> failAt]

RECURSIVE extract_enc_keys_from(_, _)
extract_enc_keys_from(i, st) ==
    IF st.status # "ok" \/ i > Len(st.lines) THEN st
    ELSE LET line == st.lines[i] IN
         IF ~StartsWithKey(line) THEN extract_enc_keys_from(i + 1, st)
         ELSE IF StartsWithKeyNone(line) THEN extract_enc_keys_from(i + 1, st)
         ELSE IF PAT_search(line) = None THEN [st EXCEPT !.status = "TypeError"]
         ELSE LET key_url == line.attrs[PAT_search(line)][2]
                  real_key == RealKey(KeyBytes(key_url))
              IN IF Len(st.fetched) + 1 = st.failAt
                 THEN [st EXCEPT !.status = "ConnectionError"]
                 ELSE IF ~CanCreate(st.dir, ".key")
                 THEN [st EXCEPT !.status = "no name left"]
                 ELSE LET name == TempName(CreatedPart(st.dir, ".key"), ".key")
                          path_uri == UrlOf(name)
                      IN extract_enc_keys_from(i + 1,
                            [st EXCEPT
                               !.fetched = Append(@, key_url),
                               !.dir = WriteFile(@, name, BytesContent(real_key)),
                               !.lines[i] = PAT_sub(path_uri, line)])

extract_enc_keys(angle_pls, d, failAt) ==
    extract_enc_keys_from(1, EncState(angle_pls, d, failAt))

\* the key directives of an angle that a call fetches and rewrites
RewrittenKeys(lines) ==
    SelectSeq(lines, LAMBDA l : StartsWithKey(l) /\ ~StartsWithKeyNone(l))

----------------------------------------------------------------------------
(* downloader.get_variants / get_variant_playlist *)

\* a line of the master playlist: whether it starts with "http", whether
\* the URL contains "720", and the text a GET of the URL answers with
MasterLine(http, has720, text) == [http |-> http, has720 |-> has720, text |-> text]

\* ("450p", "720p")["720" in url]
LabelOf(url) == IF url.has720 THEN "720p" ELSE "450p"

\* the dict comprehension of get_variants: a later URL of the same label
\* replaces an earlier one
get_variants(master_pls) ==
    LET variant_urls == SelectSeq(master_pls, LAMBDA l : l.http)
        labels == {LabelOf(variant_urls[i]) : i \in 1..Len(variant_urls)}
    IN [q \in labels |->
          variant_urls[Max({i \in 1..Len(variant_urls) :
                               LabelOf(variant_urls[i]) = q})].text]

\* min() for max()
MinLabel(variants) == IF "450p" \in DOMAIN variants THEN "450p" ELSE "720p"

\* max() of the dict's keys: str order, "720p" > "450p"
MaxLabel(variants) == IF "720p" \in DOMAIN variants THEN "720p" ELSE "450p"

NoVariant == [isNone |-> TRUE, text |-> << >>]

SomeVariant(text) == [isNone |-> FALSE, text |-> text]

\* variants.get(quality) is None for a missing key; `not variant` also
\* holds for the empty text
get_variant_playlist(master_pls, quality) ==
    LET variants == get_variants(master_pls)
    IN IF DOMAIN variants = {} THEN NoVariant
       ELSE IF quality \notin DOMAIN variants \/ variants[quality] = << >>
            THEN SomeVariant(variants[MaxLabel(variants)])
            ELSE SomeVariant(variants[quality])

----------------------------------------------------------------------------
(* downloader.add_inputs *)

TOKEN == "tok"

cookies_arg == <<"-cookies", "Bearer=" \o TOKEN \o "; path=/">>

extra_arg == <<"-allowed_extensions", "key,m3u8,ts",
               "-protocol_whitelist", "file,http,https,tcp,tls,crypto">>

\* the selector check with >= for >
InvalidAngle_ge(angle_playlists, angle) == angle >= Len(angle_playlists)

\* angle > len(angle_playlists)
InvalidAngle(angle_playlists, angle) == angle > Len(angle_playlists)

\* the selector the loops use (line 139)
EffectiveAngle(angle_playlists, angle) ==
    IF InvalidAngle(angle_playlists, angle) THEN 0 ELSE angle

\* the warning of lines 134-138, with the angle numbers it lists
Warning(angle_playlists, angle) ==
    [invalid |-> angle, available |-> [i \in 1..Len(angle_playlists) |-> i]]

\* `if angle and angle_num != angle: continue`
Selected(angle, angle_num) == ~(angle # 0 /\ angle_num # angle)

\* one video map per angle playlist, whatever the selector
MapCount_all(angle_playlists, angle) == Len(angle_playlists)

\* range(bool(angle) or len(angle_playlists))
MapCount(angle_playlists, angle) == IF angle # 0 THEN 1 ELSE Len(angle_playlists)

VideoMaps(n) == [j \in 1..(2 * n) |->
                    IF j % 2 = 1 THEN "-map" ELSE ToString((j \div 2) - 1) \o ":v:0"]

\* the state add_inputs works on
InputsState(cmd, angle_playlists, d, failAt) ==
    [status |-> "ok", cmd |-> cmd, angles |-> angle_playlists, dir |-> d,
     fetched |-> << >>, failAt |-> failAt, log |-> << >>, published |-> << >>]

\* the loop of lines 141-148 from angle_num on
RECURSIVE add_inputs_from(_, _, _)
add_inputs_from(angle_num, angle, st) ==
    IF st.status # "ok" \/ angle_num > Len(st.angles) THEN st
    ELSE IF ~Selected(angle, angle_num) THEN add_inputs_from(angle_num + 1, angle, st)
    ELSE LET e == extract_enc_keys_from(1,
                     [EncState(st.angles[angle_num], st.dir, st.failAt)
                        EXCEPT !.fetched = st.fetched])
             st1 == [st EXCEPT !.angles[angle_num] = e.lines,
                               !.dir = e.dir,
                               !.fetched = e.fetched,
                               !.status = e.status]
         IN IF e.status # "ok" THEN st1
            ELSE IF ~CanCreate(e.dir, ".m3u8")
            THEN [st1 EXCEPT !.status = "no name left"]
            ELSE LET name == TempName(CreatedPart(e.dir, ".m3u8"), ".m3u8")
                 IN add_inputs_from(angle_num + 1, angle,
                       [st1 EXCEPT
                          !.dir = WriteFile(@, name, TextContent(e.lines)),
                          !.published = Append(@, name),
                          !.cmd = @ \o cookies_arg \o extra_arg
                                    \o <<"-i", UrlOf(name)>>])

add_inputs(cmd, angle_playlists, angle, d, failAt) ==
    LET st0 == InputsState(cmd, angle_playlists, d, failAt)
        st1 == IF InvalidAngle(angle_playlists, angle)
               THEN [st0 EXCEPT !.log = <<Warning(angle_playlists, angle)>>]
               ELSE st0
        eff == EffectiveAngle(angle_playlists, angle)
        st2 == add_inputs_from(1, eff, st1)
    IN IF st2.status # "ok" THEN st2
       ELSE [st2 EXCEPT !.cmd = @ \o VideoMaps(MapCount(angle_playlists, eff))
                                  \o <<"-map", "0:a:0">>]

----------------------------------------------------------------------------
VARIABLES pc, master, quality, angle, variant, variant_pls, split, angle_pls,
          enc, inp, cmd, outcome, dir,
          task_args, processes, inqueue, workers, number_left, success,
          outcomes, mainpc, exc, dir_exists, children, published

\* pc .. outcome: one call of a function of downloader.py; dir: the files
\* of the served temp directory; pool: the batch run of main()
pool == <<task_args, processes, inqueue, workers, number_left, success,
          outcomes, mainpc, exc, dir_exists, children, published>>

vars == <<pc, master, quality, angle, variant, variant_pls, split, angle_pls,
          enc, inp, cmd, outcome, dir, pool>>

lecture == <<pc, master, quality, angle, variant, variant_pls, split, angle_pls,
             enc, inp, cmd, outcome>>

NoEnc == EncState(<< >>, EmptyDir, 0)

NoInp == InputsState(<< >>, << >>, EmptyDir, 0)

\* the variables a specification does not use
Idle(used) ==
    /\ "master" \in used \/ master = << >>
    /\ "quality" \in used \/ quality = "720p"
    /\ "angle" \in used \/ angle = 0
    /\ "variant" \in used \/ variant = NoVariant
    /\ "variant_pls" \in used \/ variant_pls = << >>
    /\ "split" \in used \/ split = Raised("none")
    /\ "angle_pls" \in used \/ angle_pls = << >>
    /\ "enc" \in used \/ enc = NoEnc
    /\ "inp" \in used \/ inp = NoInp
    /\ "cmd" \in used \/ cmd = << >>
    /\ "outcome" \in used \/ outcome = "none"
    /\ "dir" \in used \/ dir = EmptyDir
    /\ "pool" \in used \/
          /\ task_args = << >>
          /\ processes = 0
          /\ inqueue = << >>
          /\ workers = << >>
          /\ number_left = 0
          /\ success = TRUE
          /\ outcomes = << >>
          /\ mainpc = "none"
          /\ exc = "none"
          /\ dir_exists = TRUE
          /\ children = {}
          /\ published = {}

(* get_angle_playlists applied to every bounded playlist download_stream
   hands to it *)

InitSplit ==
    /\ pc = "call"
    /\ variant_pls \in {p \in Playlists : ContainsKey(p)}
    /\ Idle({"variant_pls"})

GetAnglePlaylists ==
    /\ pc = "call"
    /\ split' = get_angle_playlists(variant_pls)
    /\ pc' = "returned"
    /\ UNCHANGED <<master, quality, angle, variant, variant_pls, angle_pls, enc,
                   inp, cmd, outcome, dir, pool>>

NextSplit == GetAnglePlaylists

SpecSplit == InitSplit /\ [][NextSplit]_vars

(* extract_enc_keys applied to every bounded line list *)

KeyNoUri == Line(KEY_TAG, << <<"METHOD", "AES-128">> >>)

InitKeys ==
    /\ pc = "call"
    /\ angle_pls \in SeqsUpTo(LineAlphabet \cup {KeyNoUri}, MaxKeyLines)
    /\ Idle({"angle_pls"})

ExtractEncKeys ==
    /\ pc = "call"
    /\ \E failAt \in 0..Len(RewrittenKeys(angle_pls)) :
          LET r == extract_enc_keys(angle_pls, dir, failAt)
          IN /\ r.status # "no name left"
             /\ enc' = r
             /\ dir' = r.dir
    /\ pc' = "returned"
    /\ UNCHANGED <<master, quality, angle, variant, variant_pls, split, angle_pls,
                   inp, cmd, outcome, pool>>

NextKeys == ExtractEncKeys

SpecKeys == InitKeys /\ [][NextKeys]_vars

----------------------------------------------------------------------------
(* downloader.download_stream for one lecture *)

OUTPUT_FILE == "01. lecture.mkv"

\* playlists as the platform serves them: two camera angles under one key,
\* a single encrypted angle, an unencrypted live stream
TwoAngleText == <<HeaderLine, Key1, Seg1, DiscLine, Seg2, EndListLine>>

SingleAngleText == <<HeaderLine, Key2, Seg1, EndListLine>>

LiveText == <<HeaderLine, Seg1, Seg2>>

PipeTexts ==
    SeqsUpTo(LineAlphabet, MaxPipeLines) \cup {TwoAngleText, SingleAngleText, LiveText}

\* the texts of the masters that list several URLs
ShortTexts == {<< >>, <<Seg1>>, <<Seg2>>}

CommentLine == MasterLine(FALSE, FALSE, << >>)

MasterLines(texts) ==
    {MasterLine(TRUE, h, t) : h \in BOOLEAN, t \in texts} \cup {CommentLine}

\* master playlists: one line answering with any bounded playlist, or up to
\* MaxUrls lines answering with short ones
Masters ==
    [1..1 -> MasterLines(PipeTexts)]
        \cup UNION {[1..k -> MasterLines(ShortTexts)] : k \in 0..MaxUrls}

Init ==
    /\ pc = "fetch"
    /\ master \in Masters
    /\ quality \in {"720p", "450p"}
    /\ angle \in 0..MaxSelector
    /\ Idle({"master", "quality", "angle"})

\* lines 158-167
DS_Fetch ==
    /\ pc = "fetch"
    /\ \E net \in {"ok", "ConnectionError"} :
          IF net # "ok"
          THEN /\ outcome' = "raised"
               /\ pc' = "done"
               /\ UNCHANGED <<variant, variant_pls>>
          ELSE LET v == get_variant_playlist(master, quality)
               IN /\ variant' = v
                  /\ IF v.isNone \/ v.text = << >>
                     THEN /\ outcome' = "error getting"
                          /\ pc' = "done"
                          /\ UNCHANGED variant_pls
                     ELSE /\ variant_pls' = v.text
                          /\ pc' = "split"
                          /\ UNCHANGED outcome
    /\ UNCHANGED <<master, quality, angle, split, angle_pls, enc, inp, cmd, dir, pool>>

\* lines 168-175
DS_Split ==
    /\ pc = "split"
    /\ LET r == IF ContainsKey(variant_pls)
                THEN get_angle_playlists(variant_pls)
                ELSE Returned(<<variant_pls>>)
       IN /\ split' = r
          /\ IF r.status # "ok"
             THEN outcome' = "raised" /\ pc' = "done"
             ELSE pc' = "inputs" /\ UNCHANGED outcome
    /\ UNCHANGED <<master, quality, angle, variant, variant_pls, angle_pls, enc,
                   inp, cmd, dir, pool>>

\* the key fetches a call of add_inputs makes at most
MaxFetches(angle_playlists) ==
    Len(RewrittenKeys(angle_playlists[1]))
      + (IF Len(angle_playlists) > 1 THEN Len(RewrittenKeys(angle_playlists[2])) ELSE 0)

\* line 177 and line 179
DS_AddInputs ==
    /\ pc = "inputs"
    /\ \E failAt \in 0..MaxFetches(split.angles) :
          LET r == add_inputs(<<"ffmpeg", "-loglevel", "error">>, split.angles,
                              angle, dir, failAt)
          IN /\ r.status # "no name left"
             /\ inp' = r
             /\ dir' = r.dir
             /\ IF r.status # "ok"
                THEN outcome' = "raised" /\ pc' = "done" /\ UNCHANGED cmd
                ELSE /\ cmd' = r.cmd \o <<"-c", "copy", OUTPUT_FILE>>
                     /\ pc' = "run"
                     /\ UNCHANGED outcome
    /\ UNCHANGED <<master, quality, angle, variant, variant_pls, split,
                   angle_pls, enc, pool>>

\* lines 183-187
DS_Run ==
    /\ pc = "run"
    /\ \E returncode \in {0, 1} :
          outcome' = IF returncode # 0 THEN "ffmpeg error" ELSE "downloaded"
    /\ pc' = "done"
    /\ UNCHANGED <<master, quality, angle, variant, variant_pls, split,
                   angle_pls, enc, inp, cmd, dir, pool>>

Next == DS_Fetch \/ DS_Split \/ DS_AddInputs \/ DS_Run

Spec == Init /\ [][Next]_vars

----------------------------------------------------------------------------
(* ilc_scrape.main lines 335-342: the lectures of a batch run by a
   ThreadPool inside the DirServer scope.  Each worker runs download_stream
   in the steps at which it blocks or touches the served directory. *)

\* --worker_processes choices
WORKER_CHOICES == {1, 2}

Lecture(m, q, a) == [master |-> m, quality |-> q, angle |-> a]

\* an encrypted single-angle lecture and a lecture whose master playlist
\* lists no variant
PoolLectures ==
    {Lecture(<<MasterLine(TRUE, TRUE, SingleAngleText)>>, "720p", 0),
     Lecture(<<CommentLine>>, "720p", 0)}

\* Pool._map_async: chunksize, extra = divmod(len(iterable), len(pool) * 4)
ChunkSize(n, nproc) ==
    IF n % (nproc * 4) = 0 THEN n \div (nproc * 4) ELSE (n \div (nproc * 4)) + 1

\* Pool._get_tasks: the task numbers in batches of size chunk
Chunks(n, size) ==
    LET count == IF n % size = 0 THEN n \div size ELSE (n \div size) + 1
    IN [c \in 1..count |->
          [k \in 1..(IF c * size <= n THEN size ELSE n - (c - 1) * size) |->
              (c - 1) * size + k]]

NoPend == [content |-> TextContent(<< >>), suffix |-> "", name |-> ""]

IdleWorker ==
    [pc |-> "idle", chunk |-> << >>, task |-> 0, angles |-> << >>, eff |-> 0,
     angle_num |-> 0, i |-> 0, cmd |-> << >>, pend |-> NoPend]

InitPool ==
    /\ pc = "none"
    /\ mainpc = "with"
    /\ processes \in WORKER_CHOICES
    /\ \E n \in 1..MaxLectures : task_args \in [1..n -> PoolLectures]
    /\ processes > 1 => Len(task_args) <= MaxParallel
    /\ inqueue = << >>
    /\ workers = [w \in 1..processes |-> IdleWorker]
    /\ number_left = 0
    /\ success = TRUE
    /\ outcomes = [t \in 1..Len(task_args) |-> "none"]
    /\ exc = "none"
    /\ dir_exists = TRUE
    /\ children = {}
    /\ published = {}
    /\ Idle({"pool"})

\* line 335 and line 337: the scopes are entered, the tasks are queued
Main_Starmap ==
    /\ mainpc = "with"
    /\ inqueue' = Chunks(Len(task_args), ChunkSize(Len(task_args), processes))
    /\ number_left' = Len(inqueue')
    /\ mainpc' = "starmap"
    /\ UNCHANGED <<lecture, dir, task_args, processes, workers, success, outcomes,
                   exc, dir_exists, children, published>>

\* lines 337-339: every chunk has reported; the first exception of a task
\* is raised again in main, else the pool is closed and joined
Main_Result ==
    /\ mainpc = "starmap"
    /\ number_left = 0
    /\ exc' = IF success THEN "none" ELSE "Exception"
    /\ mainpc' = "pool exit"
    /\ UNCHANGED <<lecture, dir, task_args, processes, inqueue, workers,
                   number_left, success, outcomes, dir_exists, children, published>>

\* lines 340-341: KeyboardInterrupt in the main thread, print_quit raises
\* SystemExit
Main_KeyboardInterrupt ==
    /\ mainpc = "starmap"
    /\ exc' = "SystemExit"
    /\ mainpc' = "pool exit"
    /\ UNCHANGED <<lecture, dir, task_args, processes, inqueue, workers,
                   number_left, success, outcomes, dir_exists, children, published>>

\* ThreadPool.__exit__: terminate() empties the task queue; threads that
\* run a task are neither stopped nor joined
Main_PoolExit ==
    /\ mainpc = "pool exit"
    /\ inqueue' = << >>
    /\ mainpc' = "dir exit"
    /\ UNCHANGED <<lecture, dir, task_args, processes, workers, number_left,
                   success, outcomes, exc, dir_exists, children, published>>

\* DirServer.__exit__ line 49: TemporaryDirectory.cleanup() removes the
\* entries it finds ...
Main_CleanupUnlink ==
    /\ mainpc = "dir exit"
    /\ dir' = EmptyDir
    /\ mainpc' = "rmdir"
    /\ UNCHANGED <<lecture, task_args, processes, inqueue, workers, number_left,
                   success, outcomes, exc, dir_exists, children, published>>

\* ... and then the directory itself, which fails when a file was created in
\* it meanwhile; lines 51-52 print the pending exception
Main_CleanupRmdir ==
    /\ mainpc = "rmdir"
    /\ IF dir = EmptyDir
       THEN dir_exists' = FALSE /\ UNCHANGED exc
       ELSE exc' = "OSError" /\ UNCHANGED dir_exists
    /\ mainpc' = "exiting"
    /\ UNCHANGED <<lecture, dir, task_args, processes, inqueue, workers,
                   number_left, success, outcomes, children, published>>

\* line 342 on the normal path; the interpreter exits and its daemon
\* threads end with it
Main_Exit ==
    /\ mainpc = "exiting"
    /\ mainpc' = IF exc = "none" THEN "Finished!" ELSE "exited"
    /\ UNCHANGED <<lecture, dir, task_args, processes, inqueue, workers,
                   number_left, success, outcomes, exc, dir_exists, children,
                   published>>

Exited == mainpc \in {"Finished!", "exited"}

(* the worker threads *)

\* the task of a worker has returned: mapstar goes on with the next task of
\* the chunk, or the chunk reports success
ItemDone(w, out) ==
    /\ outcomes' = [outcomes EXCEPT ![workers[w].task] = out]
    /\ IF workers[w].chunk # << >>
       THEN /\ workers' = [workers EXCEPT ![w] =
                   [IdleWorker EXCEPT !.pc = "fetch",
                                      !.task = Head(workers[w].chunk),
                                      !.chunk = Tail(workers[w].chunk)]]
            /\ UNCHANGED <<number_left, success>>
       ELSE /\ workers' = [workers EXCEPT ![w] = IdleWorker]
            /\ number_left' = number_left - 1
            /\ UNCHANGED success

\* the task of a worker has raised: the rest of its chunk is not run and
\* the chunk reports the exception (MapResult._set)
ItemRaised(w) ==
    /\ outcomes' = [outcomes EXCEPT ![workers[w].task] = "raised"]
    /\ workers' = [workers EXCEPT ![w] = IdleWorker]
    /\ number_left' = number_left - 1
    /\ success' = FALSE

\* a worker thread takes the next chunk off the queue
Worker_Take(w) ==
    /\ ~Exited
    /\ workers[w].pc = "idle"
    /\ inqueue # << >>
    /\ inqueue' = Tail(inqueue)
    /\ workers' = [workers EXCEPT ![w] =
          [IdleWorker EXCEPT !.pc = "fetch",
                             !.task = Head(Head(inqueue)),
                             !.chunk = Tail(Head(inqueue))]]
    /\ UNCHANGED <<lecture, dir, task_args, processes, number_left, success,
                   outcomes, mainpc, exc, dir_exists, children, published>>

\* the first selected angle from angle_num on (lines 141-143)
NextSelected(angles, eff, angle_num) ==
    Min({k \in angle_num..Len(angles) : Selected(eff, k)} \cup {Len(angles) + 1})

\* download_stream lines 158-175 and add_inputs lines 126-139
Worker_Fetch(w) ==
    /\ ~Exited
    /\ workers[w].pc = "fetch"
    /\ LET lec == task_args[workers[w].task]
           v == get_variant_playlist(lec.master, lec.quality)
           r == IF ContainsKey(v.text) THEN get_angle_playlists(v.text)
                ELSE Returned(<<v.text>>)
           eff == EffectiveAngle(r.angles, lec.angle)
       IN \E net \in {"ok", "ConnectionError"} :
             IF net # "ok" \/ (v.text # << >> /\ r.status # "ok")
             THEN ItemRaised(w)
             ELSE IF v.isNone \/ v.text = << >>
             THEN ItemDone(w, "error getting")
             ELSE /\ workers' = [workers EXCEPT ![w] =
                        [@ EXCEPT !.pc = "key",
                                  !.angles = r.angles,
                                  !.eff = eff,
                                  !.angle_num = NextSelected(r.angles, eff, 1),
                                  !.i = 1,
                                  !.cmd = <<"ffmpeg", "-loglevel", "error">>]]
                  /\ UNCHANGED <<number_left, success, outcomes>>
    /\ UNCHANGED <<lecture, dir, task_args, processes, inqueue, mainpc, exc,
                   dir_exists, children, published>>

\* add_inputs lines 141-154 and extract_enc_keys lines 113-120, up to the
\* next call of DirServer.get_url
Worker_Key(w) ==
    /\ ~Exited
    /\ workers[w].pc = "key"
    /\ LET me == workers[w]
           lec == task_args[me.task]
       IN IF me.angle_num > Len(me.angles)
          THEN /\ workers' = [workers EXCEPT ![w] =
                     [@ EXCEPT !.pc = "run",
                               !.cmd = @ \o VideoMaps(MapCount(me.angles, me.eff))
                                         \o <<"-map", "0:a:0">>
                                         \o <<"-c", "copy", OUTPUT_FILE>>]]
               /\ UNCHANGED <<number_left, success, outcomes>>
          ELSE LET lines == me.angles[me.angle_num]
                   todo == {j \in me.i..Len(lines) :
                               StartsWithKey(lines[j]) /\ ~StartsWithKeyNone(lines[j])}
               IN IF todo = {}
                  THEN /\ workers' = [workers EXCEPT ![w] =
                             [@ EXCEPT !.pc = "create",
                                       !.pend = [content |-> TextContent(lines),
                                                 suffix |-> ".m3u8", name |-> ""]]]
                       /\ UNCHANGED <<number_left, success, outcomes>>
                  ELSE \E net \in {"ok", "ConnectionError"} :
                          IF net # "ok" \/ PAT_search(lines[Min(todo)]) = None
                          THEN ItemRaised(w)
                          ELSE LET line == lines[Min(todo)]
                                   key_url == line.attrs[PAT_search(line)][2]
                               IN /\ workers' = [workers EXCEPT ![w] =
                                        [@ EXCEPT
                                           !.pc = "create",
                                           !.i = Min(todo),
                                           !.pend = [content |->
                                                        BytesContent(RealKey(KeyBytes(key_url))),
                                                     suffix |-> ".key", name |-> ""]]]
                                  /\ UNCHANGED <<number_left, success, outcomes>>
    /\ UNCHANGED <<lecture, dir, task_args, processes, inqueue, mainpc, exc,
                   dir_exists, children, published>>

\* DirServer.get_url lines 60-64: the file is created under an unused name
\* (FileNotFoundError once the directory is gone)
Worker_Create(w) ==
    /\ ~Exited
    /\ workers[w].pc = "create"
    /\ IF ~dir_exists
       THEN ItemRaised(w) /\ UNCHANGED dir
       ELSE /\ CanCreate(dir, workers[w].pend.suffix)
            /\ LET name == TempName(CreatedPart(dir, workers[w].pend.suffix),
                                    workers[w].pend.suffix)
               IN /\ dir' = WriteFile(dir, name, TextContent(<< >>))
                  /\ workers' = [workers EXCEPT ![w] =
                        [@ EXCEPT !.pc = "write", !.pend.name = name]]
                  /\ UNCHANGED <<number_left, success, outcomes>>
    /\ UNCHANGED <<lecture, task_args, processes, inqueue, mainpc, exc,
                   dir_exists, children, published>>

\* DirServer.get_url lines 65-67: the content is written, the URL returned;
\* then line 122 (a key) or line 148 (a playlist) of the caller
Worker_Write(w) ==
    /\ ~Exited
    /\ workers[w].pc = "write"
    /\ LET me == workers[w]
           url == UrlOf(me.pend.name)
       IN /\ dir' = IF me.pend.name \in DOMAIN dir
                    THEN WriteFile(dir, me.pend.name, me.pend.content)
                    ELSE dir
          /\ published' = published \cup
                {[task |-> me.task, suffix |-> me.pend.suffix, url |-> url,
                  name |-> me.pend.name, content |-> me.pend.content]}
          /\ workers' = [workers EXCEPT ![w] =
                IF me.pend.suffix = ".key"
                THEN [@ EXCEPT !.pc = "key",
                               !.angles[me.angle_num][me.i] =
                                   PAT_sub(url, me.angles[me.angle_num][me.i]),
                               !.i = me.i + 1,
                               !.pend = NoPend]
                ELSE [@ EXCEPT !.pc = "key",
                               !.cmd = @ \o cookies_arg \o extra_arg \o <<"-i", url>>,
                               !.angle_num = NextSelected(me.angles, me.eff,
                                                          me.angle_num + 1),
                               !.i = 1,
                               !.pend = NoPend]]
    /\ UNCHANGED <<lecture, task_args, processes, inqueue, number_left, success,
                   outcomes, mainpc, exc, dir_exists, children>>

\* download_stream line 183: the external tool is started as a child process
Worker_Run(w) ==
    /\ ~Exited
    /\ workers[w].pc = "run"
    /\ children' = children \cup {workers[w].task}
    /\ workers' = [workers EXCEPT ![w].pc = "wait"]
    /\ UNCHANGED <<lecture, dir, task_args, processes, inqueue, number_left,
                   success, outcomes, mainpc, exc, dir_exists, published>>

\* download_stream lines 183-187: the child has exited
Worker_Wait(w) ==
    /\ ~Exited
    /\ workers[w].pc = "wait"
    /\ children' = children \ {workers[w].task}
    /\ \E returncode \in {0, 1} :
          ItemDone(w, IF returncode # 0 THEN "ffmpeg error" ELSE "downloaded")
    /\ UNCHANGED <<lecture, dir, task_args, processes, inqueue, mainpc, exc,
                   dir_exists, published>>

NextPool ==
    \/ Main_Starmap
    \/ Main_Result
    \/ Main_KeyboardInterrupt
    \/ Main_PoolExit
    \/ Main_CleanupUnlink
    \/ Main_CleanupRmdir
    \/ Main_Exit
    \/ \E w \in 1..processes :
          \/ Worker_Take(w)
          \/ Worker_Fetch(w)
          \/ Worker_Key(w)
          \/ Worker_Create(w)
          \/ Worker_Write(w)
          \/ Worker_Run(w)
          \/ Worker_Wait(w)

SpecPool == InitPool /\ [][NextPool]_vars

----------------------------------------------------------------------------
(* Claims about get_angle_playlists, checked under SpecSplit *)

\* C1 (as stated): for every variant playlist handed to get_angle_playlists
\* the call returns; with a discontinuity marker it returns exactly two
\* angles whose segment-reference lines, angle 1 then angle 2, are the
\* variant's segment-reference lines in order, each exactly once; without a
\* marker it returns exactly one angle equal to the input line list.
C1_LosslessPartition ==
    pc = "returned" =>
        /\ split.status = "ok"
        /\ IF \E i \in 1..Len(variant_pls) : StartsWithDisc(variant_pls[i])
           THEN /\ Len(split.angles) = 2
                /\ Segments(split.angles[1]) \o Segments(split.angles[2])
                      = Segments(variant_pls)
           ELSE split.angles = <<variant_pls>>

----------------------------------------------------------------------------
(* Claim about extract_enc_keys, checked under SpecKeys *)

\* C3: after extract_enc_keys has run on an angle's line list, every key
\* directive line declaring METHOD=NONE is unchanged, and every other key
\* directive line keeps its attributes, in their order, with only the
\* value of URI changed: to the URL of a file published in the served
\* directory that holds the 16-byte real key.
C3_OnlyUriRewritten ==
    (pc = "returned" /\ enc.status = "ok") =>
        /\ Len(enc.lines) = Len(angle_pls)
        /\ \A i \in 1..Len(angle_pls) :
              LET old == angle_pls[i]
                  new == enc.lines[i]
              IN IF old.tag # KEY_TAG THEN new = old
                 ELSE IF \E a \in 1..Len(old.attrs) : old.attrs[a] = <<"METHOD", "NONE">>
                 THEN new = old
                 ELSE /\ new.tag = old.tag
                      /\ Len(new.attrs) = Len(old.attrs)
                      /\ \A a \in 1..Len(old.attrs) :
                            /\ new.attrs[a][1] = old.attrs[a][1]
                            /\ old.attrs[a][1] # "URI" => new.attrs[a] = old.attrs[a]
                            /\ old.attrs[a][1] = "URI" =>
                                 \E n \in DOMAIN dir :
                                    LET orig == KeyBytes(old.attrs[a][2])
                                        len == IF Len(orig) < 16 THEN Len(orig) ELSE 16
                                    IN /\ new.attrs[a][2] = "http://localhost:PORT/" \o n
                                       /\ dir[n].bytes =
                                            [j \in 1..len |-> orig[Len(orig) + 1 - j]]

\* a call that has rewritten a key directive with three attributes next to
\* a METHOD=NONE directive
C3_Witness ==
    /\ pc = "returned"
    /\ enc.status = "ok"
    /\ angle_pls = <<KeyNone, Key2, Seg1>>
    /\ enc.lines[2] # Key2
    /\ enc.lines[2].attrs[3] = <<"IV", "0x01">>

----------------------------------------------------------------------------
(* Claims about download_stream, checked under Spec *)

\* C4: when add_inputs has returned, the argument list holds one -i clause
\* per selected angle (all angles when the effective selector is 0, else the
\* one selected), the clauses -map 0:v:0 .. -map (n-1):v:0 for its n inputs
\* and then the single audio clause -map 0:a:0; two angles under selector 0
\* give two -i and three -map clauses, a single angle gives one -i.
C4_InputAndMapClauses ==
    pc = "run" =>
        LET n == Len(split.angles)
            eff == IF angle > n THEN 0 ELSE angle
            inputs == IF eff = 0 THEN n ELSE 1
            is == {j \in 1..Len(cmd) : cmd[j] = "-i"}
            maps == SelectSeq([j \in 1..(Len(cmd) - 1) |->
                                  IF cmd[j] = "-map" THEN cmd[j + 1] ELSE "skip"],
                              LAMBDA v : v # "skip")
        IN /\ Cardinality(is) = inputs
           /\ Cardinality({j \in 1..Len(cmd) : cmd[j] = "-map"}) = inputs + 1
           /\ maps = [j \in 1..(inputs + 1) |->
                        IF j <= inputs THEN ToString(j - 1) \o ":v:0" ELSE "0:a:0"]
           /\ (n = 2 /\ angle = 0) => (Cardinality(is) = 2 /\ Len(maps) = 3)
           /\ n = 1 => Cardinality(is) = 1

\* two angles under selector 0, ready for the external tool
C4_Witness ==
    /\ pc = "run"
    /\ Len(split.angles) = 2
    /\ angle = 0
    /\ Len(inp.fetched) = 2

\* C5: a selector greater than the number of angle playlists makes
\* add_inputs warn, naming the available angles, and go on with selector 0,
\* so every available angle becomes an input; a selector that is 0 or at
\* most the number of angles is used as given, without a warning.
C5_SelectorValidation ==
    (pc \in {"run", "done"} /\ inp # NoInp) =>
        LET n == Len(split.angles)
        IN /\ angle > n =>
                /\ inp.log = <<[invalid |-> angle, available |-> [i \in 1..n |-> i]]>>
                /\ inp.status = "ok" =>
                     /\ Len(inp.published) = n
                     /\ \A i \in 1..n : dir[inp.published[i]].lines = inp.angles[i]
           /\ angle <= n =>
                /\ inp.log = << >>
                /\ inp.status = "ok" =>
                     IF angle = 0
                     THEN /\ Len(inp.published) = n
                          /\ \A i \in 1..n : dir[inp.published[i]].lines = inp.angles[i]
                     ELSE /\ Len(inp.published) = 1
                          /\ dir[inp.published[1]].lines = inp.angles[angle]

\* two available angles and a selector beyond them: both became inputs
C5_Witness ==
    /\ pc = "run"
    /\ Len(split.angles) = 2
    /\ angle > 2
    /\ Len(inp.published) = 2
    /\ Len(inp.log) = 1

\* C6 (as stated): get_variant_playlist returns the playlist of the
\* requested label when the master playlist yields a variant for it, the
\* playlist of the greatest available label when it yields none for it, and
\* None if and only if the master playlist holds no variant URL.
C6_QualityResolution ==
    (pc \in {"split", "inputs", "run"} \/ (pc = "done" /\ outcome = "error getting")) =>
        LET urls == {i \in 1..Len(master) : master[i].http}
            of(q) == {i \in urls : master[i].has720 = (q = "720p")}
            last(S) == CHOOSE i \in S : \A j \in S : j <= i
            greatest == IF of("720p") # {} THEN "720p" ELSE "450p"
        IN /\ variant.isNone <=> urls = {}
           /\ of(quality) # {} =>
                variant = [isNone |-> FALSE, text |-> master[last(of(quality))].text]
           /\ (urls # {} /\ of(quality) = {}) =>
                variant = [isNone |-> FALSE, text |-> master[last(of(greatest))].text]

\* C6 (amended): the playlist of the requested label is returned when the
\* master playlist yields a non-empty one for it; when it yields none for
\* it, or an empty one, the playlist of the greatest available label is
\* returned; None is returned if and only if there is no variant URL.
C6_QualityResolutionAmended ==
    (pc \in {"split", "inputs", "run"} \/ (pc = "done" /\ outcome = "error getting")) =>
        LET urls == {i \in 1..Len(master) : master[i].http}
            of(q) == {i \in urls : master[i].has720 = (q = "720p")}
            last(S) == CHOOSE i \in S : \A j \in S : j <= i
            greatest == IF of("720p") # {} THEN "720p" ELSE "450p"
            usable == of(quality) # {} /\ master[last(of(quality))].text # << >>
        IN /\ variant.isNone <=> urls = {}
           /\ usable =>
                variant = [isNone |-> FALSE, text |-> master[last(of(quality))].text]
           /\ (urls # {} /\ ~usable) =>
                variant = [isNone |-> FALSE, text |-> master[last(of(greatest))].text]

\* only a 450p variant is listed, 720p is requested, and the 450p playlist
\* came back
C6_Witness ==
    /\ pc = "split"
    /\ quality = "720p"
    /\ master = <<MasterLine(TRUE, FALSE, TwoAngleText)>>
    /\ variant_pls = TwoAngleText

\* C8 (as stated): when the variant playlist has no discontinuity marker,
\* the lecture's pipeline fetches no key, publishes no key, and publishes
\* for angle 1 exactly the input lines.
C8_SingleAngleBypass ==
    ( /\ pc \in {"run", "done"}
      /\ inp # NoInp
      /\ \A i \in 1..Len(variant_pls) : variant_pls[i].tag # DISC_TAG ) =>
        /\ inp.status = "ok"
        /\ inp.fetched = << >>
        /\ \A n \in DOMAIN dir : dir[n].bytes = << >>
        /\ Len(inp.published) = 1
        /\ dir[inp.published[1]].lines = variant_pls

\* C8 (amended): when the variant playlist has no discontinuity marker and
\* no key directive other than METHOD=NONE ones, the lecture's pipeline
\* fetches no key, publishes no key, and publishes for angle 1 exactly the
\* input lines.
C8_SingleAngleBypassAmended ==
    ( /\ pc \in {"run", "done"}
      /\ inp # NoInp
      /\ \A i \in 1..Len(variant_pls) : variant_pls[i].tag # DISC_TAG
      /\ \A k \in 1..Len(variant_pls) :
            variant_pls[k].tag = KEY_TAG =>
               \E a \in 1..Len(variant_pls[k].attrs) :
                  variant_pls[k].attrs[a] = <<"METHOD", "NONE">> ) =>
        /\ inp.status = "ok"
        /\ inp.fetched = << >>
        /\ \A n \in DOMAIN dir : dir[n].bytes = << >>
        /\ Len(inp.published) = 1
        /\ dir[inp.published[1]].lines = variant_pls

\* an unencrypted live playlist and one with a METHOD=NONE directive have
\* gone through add_inputs
C8_Witness ==
    /\ pc = "run"
    /\ variant_pls \in {LiveText, <<KeyNone, Seg1>>}
    /\ Len(inp.published) = 1

----------------------------------------------------------------------------
(* Claims about the batch run, checked under SpecPool *)

\* C7: for any interleaving of DirServer.get_url calls made by the
\* download tasks against the served directory, calls with identical
\* content included, every call returns a URL different from every other
\* call's, and each URL names its own file, which holds exactly the content
\* passed to that call (as long as the directory has not been cleaned up).
C7_DistinctUrls ==
    mainpc \in {"starmap", "pool exit", "dir exit"} =>
        /\ \A p \in published : \A q \in published :
              (p.task # q.task \/ p.suffix # q.suffix) => p.url # q.url
        /\ \A p \in published :
              /\ p.url = "http://localhost:PORT/" \o p.name
              /\ p.name \in DOMAIN dir
              /\ dir[p.name] = p.content

\* two tasks are inside get_url at the same time, each about to write the
\* same key bytes into a file of its own
C7_Witness ==
    /\ processes = 2
    /\ workers[1].pc = "write"
    /\ workers[2].pc = "write"
    /\ workers[1].pend.suffix = ".key"
    /\ workers[1].pend.content = workers[2].pend.content
    /\ workers[1].pend.name # workers[2].pend.name

\* C9 (as stated): a failure inside one lecture's pipeline (variant fetch
\* failure, key fetch failure, nonzero exit of the external tool) ends only
\* that lecture: the batch is not terminated before every lecture handed to
\* the pool has been processed to its own outcome, so in a run that is not
\* interrupted no lecture is left unprocessed when the run ends.
C9_ErrorContainment ==
    (Exited /\ exc \in {"none", "Exception"}) =>
        \A t \in 1..Len(task_args) : outcomes[t] # "none"

\* C10 (as stated): on every exit path of a run that entered the DirServer
\* scope the temp directory and every file published into it are deleted
\* by the time the run has ended.
C10_GuaranteedCleanup ==
    Exited => (~dir_exists /\ dir = EmptyDir)

\* C11 (as stated): when an interrupt arrives while download tasks are in
\* flight, then once the temp directory has been cleaned up no pipeline
\* instance is still running: no worker thread is inside a task (about to
\* publish a file or to start the external tool) and no child process of
\* the external tool is running.
C11_Cancellation ==
    (mainpc \in {"exiting", "exited"} /\ exc \in {"SystemExit", "OSError"}) =>
        /\ children = {}
        /\ \A w \in 1..processes : workers[w].pc = "idle"

\* C12 (as stated): for every variant playlist with a discontinuity marker,
\* each of the two angle playlists get_angle_playlists returns contains an
\* #EXT-X-ENDLIST directive that comes after its last segment-reference
\* line, whether or not the source ends with such a directive.
C12_OwnEndMarker ==
    ( /\ pc = "returned"
      /\ split.status = "ok"
      /\ \E d \in 1..Len(variant_pls) : StartsWithDisc(variant_pls[d]) ) =>
        \A a \in 1..Len(split.angles) :
            LET pls == split.angles[a]
            IN \E e \in 1..Len(pls) :
                  /\ pls[e].tag = ENDLIST_TAG
                  /\ \A j \in 1..Len(pls) : IsSegment(pls[j]) => j < e

=============================================================================
